---- MODULE Spec2Model ----
(***************************************************************************)
(* Model of the lamb term-rewriting engine: the Term tree, the locally     *)
(* nameless encoding (src/src/term/reduce.rs), the normal-order strategy   *)
(* (src/src/term/reduce/normal.rs) and the BetaReduce drivers.             *)
(*                                                                         *)
(* A Term<T> is a tuple  <<"Var", v>>, <<"Abs", param, body>> or           *)
(* <<"App", func, arg>>.  For a classic term T is an identifier (a string);*)
(* for a LocalNamelessTerm T is a Var<T>: <<"Bound", k>> or <<"Free", id>>.*)
(***************************************************************************)
EXTENDS Integers, Sequences, FiniteSets, TLC

VARIABLES classic, local_nameless, limit, count, pc, op, predicate_calls,
          step_calls, true_steps, last_changed, before_step, result, full,
          binds, calls, reduce_limit, actions, command, statements

\* the fields of a Repl besides binds, and the locals of a running Repl::exec
repl_vars == <<reduce_limit, actions, command, statements>>

vars == <<classic, local_nameless, limit, count, pc, op, predicate_calls,
          step_calls, true_steps, last_changed, before_step, result, full,
          binds, calls, repl_vars>>

---------------------------------------------------------------------------
(* Bounds of the model *)

\* largest number of nodes of an exhaustively enumerated classic input term
MaxSize == 7
\* largest number of nodes of an input term of the termination check
MaxFairSize == 5
\* largest limit handed to beta_reduce_limit
MaxLimit == 3
\* beta_reduce (which has no limit of its own) is followed for this many steps
MaxSteps == MaxLimit + 2
\* largest number of nodes of a hand-built locally-nameless term
MaxManualSize == 4
\* largest De Bruijn index of a hand-built locally-nameless term
MaxIndex == 1

\* largest number of nodes of a classic term entering the engine exploration
MaxEngineInput == 4
\* largest number of nodes of a term the engine exploration follows
MaxEngineSize == 6
\* largest number of nodes of a term stored in the table of bindings
MaxBindSize == 2

Idents == {"x", "y"}

---------------------------------------------------------------------------
(* Term constructors: Term::var, Term::abs, Term::app *)

var(v) == <<"Var", v>>
abs(param, body) == <<"Abs", param, body>>
app(func, arg) == <<"App", func, arg>>

Bound(index) == <<"Bound", index>>
Free(v) == <<"Free", v>>

None == <<"None">>
Some(v) == <<"Some", v>>
Ok(v) == <<"Ok", v>>
Err(e) == <<"Err", e>>
InvalidVarIndex(index) == <<"InvalidVarIndex", index>>
InvalidAbsParam(index) == <<"InvalidAbsParam", index>>

\* VecDeque::push_front: the front of the deque is position 0 (index 1 here)
push_front(vars_, v) == <<v>> \o vars_

\* mutant of position: the index of the last match, not of the first
position_last(vars_, v) ==
    IF \E i \in 1..Len(vars_) : vars_[i] = v
    THEN Some((CHOOSE i \in 1..Len(vars_) :
                  vars_[i] = v /\ \A j \in (i + 1)..Len(vars_) : vars_[j] # v) - 1)
    ELSE None

\* vars.iter().position(|&param| param == var)
position(vars_, v) ==
    IF \E i \in 1..Len(vars_) : vars_[i] = v
    THEN Some((CHOOSE i \in 1..Len(vars_) :
                  vars_[i] = v /\ \A j \in 1..(i - 1) : vars_[j] # v) - 1)
    ELSE None

\* mutant of get: the deque is indexed from its back
get_from_back(vars_, index) ==
    IF index < Len(vars_) THEN Some(vars_[Len(vars_) - index]) ELSE None

\* vars.get(index)
get(vars_, index) ==
    IF index < Len(vars_) THEN Some(vars_[index + 1]) ELSE None

---------------------------------------------------------------------------
(* Classic -> locally nameless *)

RECURSIVE to_local_nameless(_, _)
to_local_nameless(self, vars_) ==
    CASE self[1] = "Var" ->
            LET pos == position(vars_, self[2])
            IN  IF pos[1] = "Some" THEN var(Bound(pos[2]))
                                   ELSE var(Free(self[2]))
      [] self[1] = "Abs" ->
            abs(Free(self[2]),
                to_local_nameless(self[3], push_front(vars_, self[2])))
      [] self[1] = "App" ->
            app(to_local_nameless(self[2], vars_),
                to_local_nameless(self[3], vars_))

\* impl From<&Term<T>> for LocalNamelessTerm<T>
from(classic_) == to_local_nameless(classic_, <<>>)

---------------------------------------------------------------------------
(* Locally nameless -> classic *)

RECURSIVE to_classic(_, _)
\* mutant of to_classic: the arg of an application is converted before its func
to_classic_arg_first(self, vars_) ==
    CASE self[1] = "Var" /\ self[2][1] = "Bound" ->
            LET got == get(vars_, self[2][2])
            IN  IF got[1] = "Some" THEN Ok(var(got[2]))
                                   ELSE Err(InvalidVarIndex(self[2][2]))
      [] self[1] = "Var" /\ self[2][1] = "Free" -> Ok(var(self[2][2]))
      [] self[1] = "Abs" ->
            IF self[2][1] = "Bound"
            THEN Err(InvalidAbsParam(self[2][2]))
            ELSE LET body == to_classic(self[3], push_front(vars_, self[2][2]))
                 IN  IF body[1] = "Err" THEN body
                                        ELSE Ok(abs(self[2][2], body[2]))
      [] self[1] = "App" ->
            LET arg == to_classic(self[3], vars_)
            IN  IF arg[1] = "Err" THEN arg
                ELSE LET func == to_classic(self[2], vars_)
                     IN  IF func[1] = "Err" THEN func
                                            ELSE Ok(app(func[2], arg[2]))

to_classic(self, vars_) ==
    CASE self[1] = "Var" /\ self[2][1] = "Bound" ->
            LET got == get(vars_, self[2][2])
            IN  IF got[1] = "Some" THEN Ok(var(got[2]))
                                   ELSE Err(InvalidVarIndex(self[2][2]))
      [] self[1] = "Var" /\ self[2][1] = "Free" -> Ok(var(self[2][2]))
      [] self[1] = "Abs" ->
            IF self[2][1] = "Bound"
            THEN Err(InvalidAbsParam(self[2][2]))
            ELSE LET body == to_classic(self[3], push_front(vars_, self[2][2]))
                 IN  IF body[1] = "Err" THEN body
                                        ELSE Ok(abs(self[2][2], body[2]))
      [] self[1] = "App" ->
            LET func == to_classic(self[2], vars_)
            IN  IF func[1] = "Err" THEN func
                ELSE LET arg == to_classic(self[3], vars_)
                     IN  IF arg[1] = "Err" THEN arg
                                           ELSE Ok(app(func[2], arg[2]))

\* impl TryFrom<&LocalNamelessTerm<T>> for Term<T>
try_from(local_nameless_) == to_classic(local_nameless_, <<>>)

---------------------------------------------------------------------------
(* Substitution engine *)

RECURSIVE shifted(_, _, _)
\* mutant of shifted: every index is raised, the locally bound ones too
shifted_all(self, depth, amount) ==
    CASE self[1] = "Var" /\ self[2][1] = "Bound" ->
            var(Bound(self[2][2] + amount))
      [] self[1] = "Var" /\ self[2][1] = "Free" -> var(Free(self[2][2]))
      [] self[1] = "Abs" -> abs(self[2], shifted(self[3], depth + 1, amount))
      [] self[1] = "App" -> app(shifted(self[2], depth, amount),
                                shifted(self[3], depth, amount))

shifted(self, depth, amount) ==
    CASE self[1] = "Var" /\ self[2][1] = "Bound" ->
            IF self[2][2] >= depth THEN var(Bound(self[2][2] + amount))
                                   ELSE var(Bound(self[2][2]))
      [] self[1] = "Var" /\ self[2][1] = "Free" -> var(Free(self[2][2]))
      [] self[1] = "Abs" -> abs(self[2], shifted(self[3], depth + 1, amount))
      [] self[1] = "App" -> app(shifted(self[2], depth, amount),
                                shifted(self[3], depth, amount))

RECURSIVE open(_, _, _)
\* mutant of open: an index above depth is left as it is (no *index -= 1)
open_no_decrement(self, depth, replacement) ==
    CASE self[1] = "Var" /\ self[2][1] = "Bound" ->
            IF self[2][2] = depth THEN shifted(replacement, 0, depth)
            ELSE self
      [] self[1] = "Var" /\ self[2][1] = "Free" -> self
      [] self[1] = "Abs" -> abs(self[2], open(self[3], depth + 1, replacement))
      [] self[1] = "App" -> app(open(self[2], depth, replacement),
                                open(self[3], depth, replacement))

open(self, depth, replacement) ==
    CASE self[1] = "Var" /\ self[2][1] = "Bound" ->
            IF self[2][2] = depth THEN shifted(replacement, 0, depth)
            ELSE IF self[2][2] > depth THEN var(Bound(self[2][2] - 1))
            ELSE self
      [] self[1] = "Var" /\ self[2][1] = "Free" -> self
      [] self[1] = "Abs" -> abs(self[2], open(self[3], depth + 1, replacement))
      [] self[1] = "App" -> app(open(self[2], depth, replacement),
                                open(self[3], depth, replacement))

---------------------------------------------------------------------------
(* The normal-order strategy.  A step works in place and returns a bool;  *)
(* here it returns the pair of the bool and the term left behind.         *)

Stepped(changed, term) == [changed |-> changed, term |-> term]

RECURSIVE beta_reduce_step(_)
\* mutant of beta_reduce_step: func_reduced && arg_reduced
beta_reduce_step_and(term) ==
    CASE term[1] = "Var" -> Stepped(FALSE, term)
      [] term[1] = "Abs" ->
            LET body == beta_reduce_step(term[3])
            IN  Stepped(body.changed, abs(term[2], body.term))
      [] term[1] = "App" ->
            IF term[2][1] = "Abs"
            THEN LET body == beta_reduce_step(term[2][3])
                 IN  Stepped(TRUE, open(body.term, 0, term[3]))
            ELSE LET func_reduced == beta_reduce_step(term[2])
                     arg_reduced == beta_reduce_step(term[3])
                 IN  Stepped(func_reduced.changed /\ arg_reduced.changed,
                             app(func_reduced.term, arg_reduced.term))

\* mutant of beta_reduce_step: a variable reports change
beta_reduce_step_var_true(term) ==
    CASE term[1] = "Var" -> Stepped(TRUE, term)
      [] term[1] = "Abs" ->
            LET body == beta_reduce_step(term[3])
            IN  Stepped(body.changed, abs(term[2], body.term))
      [] term[1] = "App" ->
            IF term[2][1] = "Abs"
            THEN LET body == beta_reduce_step(term[2][3])
                 IN  Stepped(TRUE, open(body.term, 0, term[3]))
            ELSE LET func_reduced == beta_reduce_step(term[2])
                     arg_reduced == beta_reduce_step(term[3])
                 IN  Stepped(func_reduced.changed \/ arg_reduced.changed,
                             app(func_reduced.term, arg_reduced.term))

\* mutant of beta_reduce_step: the body of an abstraction is not entered
beta_reduce_step_weak(term) ==
    CASE term[1] = "Var" -> Stepped(FALSE, term)
      [] term[1] = "Abs" -> Stepped(FALSE, term)
      [] term[1] = "App" ->
            IF term[2][1] = "Abs"
            THEN LET body == beta_reduce_step(term[2][3])
                 IN  Stepped(TRUE, open(body.term, 0, term[3]))
            ELSE LET func_reduced == beta_reduce_step(term[2])
                     arg_reduced == beta_reduce_step(term[3])
                 IN  Stepped(func_reduced.changed \/ arg_reduced.changed,
                             app(func_reduced.term, arg_reduced.term))

\* mutant of beta_reduce_step: arg is not stepped once func has changed
beta_reduce_step_short_circuit(term) ==
    CASE term[1] = "Var" -> Stepped(FALSE, term)
      [] term[1] = "Abs" ->
            LET body == beta_reduce_step(term[3])
            IN  Stepped(body.changed, abs(term[2], body.term))
      [] term[1] = "App" ->
            IF term[2][1] = "Abs"
            THEN LET body == beta_reduce_step(term[2][3])
                 IN  Stepped(TRUE, open(body.term, 0, term[3]))
            ELSE LET func_reduced == beta_reduce_step(term[2])
                     arg_reduced == beta_reduce_step(term[3])
                 IN  IF func_reduced.changed
                     THEN Stepped(TRUE, app(func_reduced.term, term[3]))
                     ELSE Stepped(arg_reduced.changed,
                                  app(func_reduced.term, arg_reduced.term))

\* mutant of beta_reduce_step: the arg of a redex is stepped before opening
beta_reduce_step_arg_stepped(term) ==
    CASE term[1] = "Var" -> Stepped(FALSE, term)
      [] term[1] = "Abs" ->
            LET body == beta_reduce_step(term[3])
            IN  Stepped(body.changed, abs(term[2], body.term))
      [] term[1] = "App" ->
            IF term[2][1] = "Abs"
            THEN LET body == beta_reduce_step(term[2][3])
                     arg == beta_reduce_step(term[3])
                 IN  Stepped(TRUE, open(body.term, 0, arg.term))
            ELSE LET func_reduced == beta_reduce_step(term[2])
                     arg_reduced == beta_reduce_step(term[3])
                 IN  Stepped(func_reduced.changed \/ arg_reduced.changed,
                             app(func_reduced.term, arg_reduced.term))

\* mutant of beta_reduce_step: the body of a redex is opened with its own
\* parameter as a free variable
beta_reduce_step_open_param(term) ==
    CASE term[1] = "Var" -> Stepped(FALSE, term)
      [] term[1] = "Abs" ->
            LET body == beta_reduce_step(term[3])
            IN  Stepped(body.changed, abs(term[2], body.term))
      [] term[1] = "App" ->
            IF term[2][1] = "Abs"
            THEN LET body == beta_reduce_step(term[2][3])
                 IN  Stepped(TRUE, open(body.term, 0, var(term[2][2])))
            ELSE LET func_reduced == beta_reduce_step(term[2])
                     arg_reduced == beta_reduce_step(term[3])
                 IN  Stepped(func_reduced.changed \/ arg_reduced.changed,
                             app(func_reduced.term, arg_reduced.term))

\* mutant of beta_reduce_step: the body of a redex is opened as it is
beta_reduce_step_body_untouched(term) ==
    CASE term[1] = "Var" -> Stepped(FALSE, term)
      [] term[1] = "Abs" ->
            LET body == beta_reduce_step(term[3])
            IN  Stepped(body.changed, abs(term[2], body.term))
      [] term[1] = "App" ->
            IF term[2][1] = "Abs"
            THEN Stepped(TRUE, open(term[2][3], 0, term[3]))
            ELSE LET func_reduced == beta_reduce_step(term[2])
                     arg_reduced == beta_reduce_step(term[3])
                 IN  Stepped(func_reduced.changed \/ arg_reduced.changed,
                             app(func_reduced.term, arg_reduced.term))

\* mutant of beta_reduce_step: a redex whose body stepped is left in place
beta_reduce_step_inner_first(term) ==
    CASE term[1] = "Var" -> Stepped(FALSE, term)
      [] term[1] = "Abs" ->
            LET body == beta_reduce_step(term[3])
            IN  Stepped(body.changed, abs(term[2], body.term))
      [] term[1] = "App" ->
            IF term[2][1] = "Abs"
            THEN LET body == beta_reduce_step(term[2][3])
                 IN  IF body.changed
                     THEN Stepped(TRUE, app(abs(term[2][2], body.term),
                                            term[3]))
                     ELSE Stepped(TRUE, open(body.term, 0, term[3]))
            ELSE LET func_reduced == beta_reduce_step(term[2])
                     arg_reduced == beta_reduce_step(term[3])
                 IN  Stepped(func_reduced.changed \/ arg_reduced.changed,
                             app(func_reduced.term, arg_reduced.term))

beta_reduce_step(term) ==
    CASE term[1] = "Var" -> Stepped(FALSE, term)
      [] term[1] = "Abs" ->
            LET body == beta_reduce_step(term[3])
            IN  Stepped(body.changed, abs(term[2], body.term))
      [] term[1] = "App" ->
            IF term[2][1] = "Abs"
            THEN LET body == beta_reduce_step(term[2][3])
                 IN  Stepped(TRUE, open(body.term, 0, term[3]))
            ELSE LET func_reduced == beta_reduce_step(term[2])
                     arg_reduced == beta_reduce_step(term[3])
                 IN  Stepped(func_reduced.changed \/ arg_reduced.changed,
                             app(func_reduced.term, arg_reduced.term))

---------------------------------------------------------------------------
(* Binding rewriter: binds is a function from the bound names to terms *)

RECURSIVE rebind(_, _)
\* mutant of rebind: the spliced term is rewritten in its turn
rebind_transitive(self, binds_) ==
    CASE self[1] = "Var" /\ self[2][1] = "Bound" -> self
      [] self[1] = "Var" /\ self[2][1] = "Free" ->
            IF self[2][2] \in DOMAIN binds_
            THEN rebind(binds_[self[2][2]], binds_) ELSE self
      [] self[1] = "Abs" -> abs(self[2], rebind(self[3], binds_))
      [] self[1] = "App" -> app(rebind(self[2], binds_),
                                rebind(self[3], binds_))

\* mutant of rebind: the body of an abstraction is not entered
rebind_shallow(self, binds_) ==
    CASE self[1] = "Var" /\ self[2][1] = "Bound" -> self
      [] self[1] = "Var" /\ self[2][1] = "Free" ->
            IF self[2][2] \in DOMAIN binds_ THEN binds_[self[2][2]] ELSE self
      [] self[1] = "Abs" -> self
      [] self[1] = "App" -> app(rebind(self[2], binds_),
                                rebind(self[3], binds_))

rebind(self, binds_) ==
    CASE self[1] = "Var" /\ self[2][1] = "Bound" -> self
      [] self[1] = "Var" /\ self[2][1] = "Free" ->
            IF self[2][2] \in DOMAIN binds_ THEN binds_[self[2][2]] ELSE self
      [] self[1] = "Abs" -> abs(self[2], rebind(self[3], binds_))
      [] self[1] = "App" -> app(rebind(self[2], binds_),
                                rebind(self[3], binds_))

---------------------------------------------------------------------------
(* Display: the String that format!("{}", term) builds, as the sequence of *)
(* the pieces written: "\lambda" for the lambda sign, identifiers, ". ",  *)
(* " ", "(" and ")"                                                        *)

String(pieces) == <<"String", pieces>>

RECURSIVE fmt(_)
\* mutant of fmt: a func that is an application is parenthesised as well
fmt_func_app_parenthesised(self) ==
    CASE self[1] = "Var" -> <<self[2]>>
      [] self[1] = "Abs" -> <<"\\lambda", self[2], ". ">> \o fmt(self[3])
      [] self[1] = "App" ->
            CASE self[2][1] # "Var" /\ self[3][1] \in {"Abs", "App"} ->
                    <<"(">> \o fmt(self[2]) \o <<")", " ", "(">>
                            \o fmt(self[3]) \o <<")">>
              [] self[2][1] # "Var" ->
                    <<"(">> \o fmt(self[2]) \o <<")", " ">> \o fmt(self[3])
              [] self[3][1] \in {"Abs", "App"} ->
                    fmt(self[2]) \o <<" ", "(">> \o fmt(self[3]) \o <<")">>
              [] OTHER -> fmt(self[2]) \o <<" ">> \o fmt(self[3])

fmt(self) ==
    CASE self[1] = "Var" -> <<self[2]>>
      [] self[1] = "Abs" -> <<"\\lambda", self[2], ". ">> \o fmt(self[3])
      [] self[1] = "App" ->
            CASE self[2][1] = "Abs" /\ self[3][1] \in {"Abs", "App"} ->
                    <<"(">> \o fmt(self[2]) \o <<")", " ", "(">>
                            \o fmt(self[3]) \o <<")">>
              [] self[2][1] = "Abs" ->
                    <<"(">> \o fmt(self[2]) \o <<")", " ">> \o fmt(self[3])
              [] self[3][1] \in {"Abs", "App"} ->
                    fmt(self[2]) \o <<" ", "(">> \o fmt(self[3]) \o <<")">>
              [] OTHER -> fmt(self[2]) \o <<" ">> \o fmt(self[3])

---------------------------------------------------------------------------
(* Input terms *)

RECURSIVE TermsOfSize(_)
TermsOfSize(n) ==
    IF n = 1 THEN {var(v) : v \in Idents}
    ELSE {abs(p, b) : p \in Idents, b \in TermsOfSize(n - 1)}
         \cup UNION {{app(f, a) : f \in TermsOfSize(k),
                                  a \in TermsOfSize(n - 1 - k)} :
                     k \in 1..(n - 2)}

\* prelude combinators and the terms the scenarios name
app_self == abs("x", app(var("x"), var("x")))
omega == app(app_self, app_self)
id == abs("x", var("x"))
constant == abs("x", abs("y", var("x")))
compose ==
    abs("f", abs("g", abs("x", app(var("f"), app(var("g"), var("x"))))))
triple == abs("w", app(app(var("w"), var("w")), var("w")))
flip ==
    abs("f", abs("x", abs("y", app(app(var("f"), var("y")), var("x")))))
ScenarioTerms ==
    { omega,
      app(triple, triple),
      app(constant, var("y")),
      app(abs("n", app(var("n"), var("n"))), id),
      app(app(app_self, id), app(id, var("y"))),
      app(app(constant, id), omega),
      compose,
      flip,
      app(abs("x", app(app_self, id)), var("y")) }

ClassicTerms == UNION {TermsOfSize(n) : n \in 1..MaxSize} \cup ScenarioTerms

---------------------------------------------------------------------------
(* The public entry points, followed call by call.                        *)
(*   pc = "idle"      no call is running                                   *)
(*        "from"      LocalNamelessTerm::from(self) is next                *)
(*        "predicate" take_while evaluates predicate(term, count) next     *)
(*        "step"      reducer.beta_reduce_step(term) is next               *)
(*        "try_from"  Term::try_from(&local_nameless) is next              *)
(*        "done"      the call returned, "panic" the unwrap panicked       *)

Unset == <<"Unset">>

\* what is known of self.beta_reduced(&Normal): nothing yet, its ReducedTerm,
\* or that it was still running after MaxSteps steps
NoFull == [status |-> "none", count |-> 0, term |-> Unset]

\* no Repl is in use: nothing in its fields, no command running
NoCommand == <<"None">>
NoRepl ==
    /\ reduce_limit = 0
    /\ actions = <<>>
    /\ command = NoCommand
    /\ statements = <<>>

\* one call made by take_while's closure, in the order the calls are made:
\* predicate(term, count) with what it returned, or beta_reduce_step(term)
\* with what it returned and the term it left
Called(call_, count_, term, returned_, after_) ==
    [call |-> call_, count |-> count_, term |-> term, returned |-> returned_,
     after |-> after_]

Init ==
    /\ classic \in ClassicTerms
    /\ local_nameless = Unset
    /\ limit = 0
    /\ count = 0
    /\ pc = "idle"
    /\ op = "none"
    /\ predicate_calls = 0
    /\ step_calls = 0
    /\ true_steps = 0
    /\ last_changed = FALSE
    /\ before_step = Unset
    /\ result = None
    /\ full = NoFull
    /\ binds = <<>>
    /\ calls = <<>>
    /\ NoRepl

Enter(op_, limit_) ==
    /\ pc = "idle"
    /\ pc' = "from"
    /\ op' = op_
    /\ limit' = limit_
    /\ count' = 0
    /\ predicate_calls' = 0
    /\ step_calls' = 0
    /\ true_steps' = 0
    /\ last_changed' = FALSE
    /\ before_step' = Unset
    /\ result' = None
    /\ local_nameless' = Unset
    /\ calls' = <<>>
    /\ UNCHANGED <<classic, full, binds,
                   repl_vars>>

\* self.beta_reduced(&Normal)
CallBetaReduced == full = NoFull /\ Enter("beta_reduced", 0)

\* self.beta_reduced_limit(limit, &Normal)
CallBetaReducedLimit == \E n \in 0..MaxLimit : Enter("beta_reduced_limit", n)

\* self.beta_reduced_while(&Normal, predicate), predicate the caller's
CallBetaReducedWhile == Enter("beta_reduced_while", 0)

\* Term::try_from(&LocalNamelessTerm::from(&self))
CallRoundTrip == Enter("round_trip", 0)

\* format!("{}", self)
CallDisplay ==
    /\ pc = "idle"
    /\ pc' = "done"
    /\ op' = "display"
    /\ result' = String(fmt(classic))
    /\ UNCHANGED <<classic, local_nameless, limit, count, predicate_calls,
                   step_calls, true_steps, last_changed, before_step, full,
                   binds, calls, repl_vars>>

\* let mut local_nameless = LocalNamelessTerm::from(self);
FromClassic ==
    /\ pc = "from"
    /\ local_nameless' = from(classic)
    /\ pc' = CASE op = "beta_reduced" -> "step"
               [] op = "beta_reduced_limit" -> "predicate"
               [] op = "beta_reduced_while" -> "predicate"
               [] op = "reduce" -> "rebind"
               [] OTHER -> "try_from"
    /\ UNCHANGED <<classic, limit, count, op, predicate_calls, step_calls,
                   true_steps, last_changed, before_step, result, full, binds,
                   calls, repl_vars>>

\* mutants of predicate: count <= limit, count + 1 < limit, no limit at all
predicate_inclusive(term, count_) == count_ <= limit
predicate_early(term, count_) == count_ + 1 < limit
predicate_unbounded(term, count_) == TRUE

\* the closure of beta_reduce_limit, called by take_while with the next index
predicate(term, count_) == count_ < limit

\* (0..): the index take_while's closure is given is one more than the
\* last; take_while yields an item when the closure returns true, and count
\* is the number of items yielded so far
\* (mutant of range_next: the range starts at 1)
range_next_from_one(count_) == count_ + 1

range_next(count_) == count_

\* take_while(|count| predicate(term, *count) && ...): the left operand,
\* the closure of beta_reduce_limit
Predicate ==
    /\ pc = "predicate"
    /\ op # "beta_reduced_while"
    /\ predicate_calls' = predicate_calls + 1
    /\ LET returned == predicate(local_nameless, range_next(count))
       IN  /\ calls' = Append(calls, Called("predicate", range_next(count),
                                            local_nameless, returned,
                                            local_nameless))
           /\ pc' = IF returned THEN "step" ELSE "try_from"
    /\ UNCHANGED <<classic, local_nameless, limit, count, op, step_calls,
                   true_steps, last_changed, before_step, result, full, binds,
                   repl_vars>>

\* the same operand when the predicate is the caller's: it may return
\* either value for any term and index, true no more than MaxSteps times
PredicateWhile ==
    /\ pc = "predicate"
    /\ op = "beta_reduced_while"
    /\ predicate_calls' = predicate_calls + 1
    /\ \E returned \in BOOLEAN :
           /\ returned => count < MaxSteps
           /\ calls' = Append(calls, Called("predicate", range_next(count),
                                            local_nameless, returned,
                                            local_nameless))
           /\ pc' = IF returned THEN "step" ELSE "try_from"
    /\ UNCHANGED <<classic, local_nameless, limit, count, op, step_calls,
                   true_steps, last_changed, before_step, result, full, binds,
                   repl_vars>>

\* one self.beta_reduce_step(term) of beta_reduce (iter::from_fn ... count())
\* or of beta_reduce_while (the right operand of &&); a hand-built term is
\* stepped once
Step ==
    /\ pc = "step"
    /\ op \in {"beta_reduced", "reduce"} => count < MaxSteps
    /\ LET stepped == beta_reduce_step(local_nameless)
       IN  /\ before_step' = local_nameless
           /\ calls' = Append(calls, Called("step", count, local_nameless,
                                            stepped.changed, stepped.term))
           /\ local_nameless' = stepped.term
           /\ last_changed' = stepped.changed
           /\ step_calls' = step_calls + 1
           /\ true_steps' = IF stepped.changed THEN true_steps + 1
                                               ELSE true_steps
           /\ count' = IF stepped.changed THEN count + 1 ELSE count
           /\ pc' = CASE op = "manual" -> "try_from"
                      [] ~stepped.changed -> "try_from"
                      [] op = "beta_reduced" -> "step"
                      [] OTHER -> "predicate"
    /\ UNCHANGED <<classic, limit, op, predicate_calls, result, full, binds,
                   repl_vars>>

\* term: (&local_nameless).try_into().unwrap()
TryFrom ==
    /\ pc = "try_from"
    /\ result' = try_from(local_nameless)
    /\ pc' = CASE result'[1] = "Err"
                    /\ op \in {"beta_reduced", "beta_reduced_limit",
                               "beta_reduced_while", "reduce"} -> "panic"
               [] op = "reduce" -> "push"
               [] OTHER -> "done"
    /\ UNCHANGED <<classic, local_nameless, limit, count, op, predicate_calls,
                   step_calls, true_steps, last_changed, before_step, full,
                   binds,
                   calls, repl_vars>>

Leave(full_) ==
    /\ pc' = "idle"
    /\ op' = "none"
    /\ full' = full_
    /\ local_nameless' = Unset
    /\ limit' = 0
    /\ count' = 0
    /\ predicate_calls' = 0
    /\ step_calls' = 0
    /\ true_steps' = 0
    /\ last_changed' = FALSE
    /\ before_step' = Unset
    /\ result' = None
    /\ calls' = <<>>
    /\ UNCHANGED <<classic, binds,
                   repl_vars>>

\* the caller takes the ReducedTerm { count, term }; that of beta_reduced is kept
Return ==
    /\ pc = "done"
    /\ Leave(IF op = "beta_reduced"
             THEN [status |-> "finished", count |-> count, term |-> result[2]]
             ELSE full)

\* beta_reduce has no limit: a reduction still running after MaxSteps steps
\* is not followed any further
Abandon ==
    /\ pc = "step"
    /\ op = "beta_reduced"
    /\ count = MaxSteps
    /\ Leave([status |-> "abandoned", count |-> count, term |-> Unset])

Next ==
    \/ CallBetaReduced
    \/ CallBetaReducedLimit
    \/ CallBetaReducedWhile
    \/ CallRoundTrip
    \/ CallDisplay
    \/ FromClassic
    \/ Predicate
    \/ PredicateWhile
    \/ Step
    \/ TryFrom
    \/ Return
    \/ Abandon

Spec == Init /\ [][Next]_vars

---------------------------------------------------------------------------
(* Hand-built locally-nameless terms, well-formed or not, given to        *)
(* beta_reduce_step and to Term::try_from directly                        *)

ManualVars == {Bound(k) : k \in 0..MaxIndex} \cup {Free(v) : v \in Idents}

RECURSIVE ManualOfSize(_)
ManualOfSize(n) ==
    IF n = 1 THEN {var(w) : w \in ManualVars}
    ELSE {abs(w, b) : w \in ManualVars, b \in ManualOfSize(n - 1)}
         \cup UNION {{app(f, a) : f \in ManualOfSize(k),
                                  a \in ManualOfSize(n - 1 - k)} :
                     k \in 1..(n - 2)}

ManualTerms == UNION {ManualOfSize(n) : n \in 1..MaxManualSize}

InitManual ==
    /\ classic = Unset
    /\ local_nameless \in ManualTerms
    /\ limit = 0
    /\ count = 0
    /\ pc \in {"step", "try_from"}
    /\ op = "manual"
    /\ predicate_calls = 0
    /\ step_calls = 0
    /\ true_steps = 0
    /\ last_changed = FALSE
    /\ before_step = Unset
    /\ result = None
    /\ full = NoFull
    /\ binds = <<>>
    /\ calls = <<>>
    /\ NoRepl

\* the terms a hand-built term is opened with
Replacements == ManualOfSize(1) \cup ManualOfSize(2)

\* self.open(depth, &replacement), as the redex arm calls it at depth 0 and
\* open calls itself below abstractions
ManualOpen ==
    /\ pc = "step"
    /\ op = "manual"
    /\ calls = <<>>
    /\ \E depth \in 0..MaxIndex, replacement \in Replacements :
           /\ local_nameless' = open(local_nameless, depth, replacement)
           /\ calls' = <<[call |-> "open", term |-> local_nameless,
                          depth |-> depth, replacement |-> replacement,
                          after |-> local_nameless']>>
    /\ before_step' = local_nameless
    /\ pc' = "try_from"
    /\ UNCHANGED <<classic, limit, count, op, predicate_calls, step_calls,
                   true_steps, last_changed, result, full, binds, repl_vars>>

NextManual == Step \/ TryFrom \/ ManualOpen

SpecManual == InitManual /\ [][NextManual]_vars

---------------------------------------------------------------------------
(* The engine used piecewise, as Repl::exec does: a term converted from a  *)
(* classic one is rewritten against the table of bindings and stepped, in  *)
(* any order, converted back, or stored in the table.  op is the last      *)
(* operation.                                                              *)

RECURSIVE Size(_)
Size(t) ==
    CASE t[1] = "Var" -> 1
      [] t[1] = "Abs" -> 1 + Size(t[3])
      [] t[1] = "App" -> 1 + Size(t[2]) + Size(t[3])

EngineInputs ==
    UNION {TermsOfSize(n) : n \in 1..MaxEngineInput}
    \cup { abs("x", app(abs("y", var("x")), var("y"))),
            app(constant, var("y")),
            abs("x", app(abs("y", abs("x", var("y"))), var("x"))) }

\* (mutant of insert: an entry that exists is kept)
insert_if_absent(binds_, name, term) ==
    [n \in DOMAIN binds_ \cup {name} |->
        IF n \in DOMAIN binds_ THEN binds_[n] ELSE term]

\* HashMap::insert
insert(binds_, name, term) ==
    [n \in DOMAIN binds_ \cup {name} |-> IF n = name THEN term ELSE binds_[n]]

InitEngine ==
    /\ classic = Unset
    /\ local_nameless = Unset
    /\ limit = 0
    /\ count = 0
    /\ pc = "engine"
    /\ op = "none"
    /\ predicate_calls = 0
    /\ step_calls = 0
    /\ true_steps = 0
    /\ last_changed = FALSE
    /\ before_step = Unset
    /\ result = None
    /\ full = NoFull
    /\ binds = <<>>
    /\ calls = <<>>
    /\ NoRepl

\* let mut local_nameless = LocalNamelessTerm::from(&term);
\* (a conversion anywhere else starts over with the same table, and reaches
\* nothing that one made before the operations since the last insert misses)
EngineFrom ==
    /\ pc = "engine"
    /\ local_nameless = Unset \/ op = "insert"
    /\ \E term \in EngineInputs : local_nameless' = from(term)
    /\ op' = "from"
    /\ last_changed' = FALSE
    /\ UNCHANGED <<classic, limit, count, pc, predicate_calls, step_calls,
                   true_steps, before_step, result, full, binds,
                   calls, repl_vars>>

\* local_nameless.rebind(&mut self.binds);
EngineRebind ==
    /\ pc = "engine"
    /\ local_nameless # Unset
    /\ local_nameless' = rebind(local_nameless, binds)
    /\ Size(local_nameless') <= MaxEngineSize
    /\ op' = "rebind"
    /\ last_changed' = FALSE
    /\ UNCHANGED <<classic, limit, count, pc, predicate_calls, step_calls,
                   true_steps, before_step, result, full, binds,
                   calls, repl_vars>>

\* local_nameless.beta_reduce_step(&Normal)
EngineStep ==
    /\ pc = "engine"
    /\ local_nameless # Unset
    /\ LET stepped == beta_reduce_step(local_nameless)
       IN  /\ local_nameless' = stepped.term
           /\ last_changed' = stepped.changed
    /\ Size(local_nameless') <= MaxEngineSize
    /\ op' = "step"
    /\ UNCHANGED <<classic, limit, count, pc, predicate_calls, step_calls,
                   true_steps, before_step, result, full, binds,
                   calls, repl_vars>>

\* self.binds.insert(name.clone(), local_nameless)
EngineInsert ==
    /\ pc = "engine"
    /\ local_nameless # Unset
    /\ Size(local_nameless) <= MaxBindSize
    /\ \E name \in Idents : binds' = insert(binds, name, local_nameless)
    /\ op' = "insert"
    /\ last_changed' = FALSE
    /\ UNCHANGED <<classic, local_nameless, limit, count, pc,
                   predicate_calls, step_calls, true_steps,
                   before_step, result, full,
                   calls, repl_vars>>

\* Term::try_from(&local_nameless).unwrap()
EngineTryFrom ==
    /\ pc = "engine"
    /\ local_nameless # Unset
    /\ pc' = IF try_from(local_nameless)[1] = "Err" THEN "panic" ELSE pc
    /\ UNCHANGED <<classic, local_nameless, limit, count, op, predicate_calls,
                   step_calls, true_steps, last_changed, before_step, result,
                   full, binds,
                   calls, repl_vars>>

NextEngine ==
    \/ EngineFrom
    \/ EngineRebind
    \/ EngineStep
    \/ EngineInsert
    \/ EngineTryFrom

SpecEngine == InitEngine /\ [][NextEngine]_vars

---------------------------------------------------------------------------
(* The Repl: a default Repl is given commands one after the other, each    *)
(* Repl::exec followed to its return.                                      *)
(*   pc = "repl"      the caller holds the Repl, no exec is running        *)
(*        "from", "predicate", "step", "try_from"  as above (Reduce)       *)
(*        "rebind"    local_nameless.rebind(&mut self.binds) is next       *)
(*        "push"      actions.push(TermReduced ...) is next                *)
(*        "exec"      the next statement of Exec, if any, is next          *)
(*        "returned"  exec returned actions                                *)

MaxStatements == 2

DefaultReduceLimit == 1000

Reduce(term) == <<"Reduce", term>>
Exec(statements_) == <<"Exec", statements_>>
GetReduceLimit == <<"GetReduceLimit">>
SetReduceLimit(limit_) == <<"SetReduceLimit", limit_>>
Exit == <<"Exit">>

Bind(name, term) == <<"Bind", name, term>>

ReducedTerm(count_, term) == [count |-> count_, term |-> term]
TermReduced(reduced) == <<"TermReduced", reduced>>
ReduceLimitReached(count_) == <<"ReduceLimitReached", count_>>
BindAdded(name) == <<"BindAdded", name>>
BindOverwritten(name) == <<"BindOverwritten", name>>
ReduceLimitGot(limit_) == <<"ReduceLimitGot", limit_>>
ReduceLimitSet(limit_) == <<"ReduceLimitSet", limit_>>

double == abs("n", app(var("n"), var("n")))

\* the statements and terms the commands are made of
ReplStatements ==
    { Bind("identity", id),
      Bind("double", double),
      Bind("a", var("b")),
      Bind("b", var("identity")),
      Bind("b", abs("x", var("identity"))) }

ReplTerms ==
    { app(var("double"), var("identity")),
      var("a"),
      app(var("a"), var("b")),
      app(var("double"), var("double")) }

RECURSIVE StatementLists(_)
StatementLists(n) ==
    IF n = 0 THEN {<<>>}
    ELSE StatementLists(n - 1)
         \cup {Append(l, s) : l \in StatementLists(n - 1), s \in ReplStatements}

\* Repl::default()
InitRepl ==
    /\ classic = Unset
    /\ local_nameless = Unset
    /\ limit = 0
    /\ count = 0
    /\ pc = "repl"
    /\ op = "none"
    /\ predicate_calls = 0
    /\ step_calls = 0
    /\ true_steps = 0
    /\ last_changed = FALSE
    /\ before_step = Unset
    /\ result = None
    /\ full = NoFull
    /\ binds = <<>>
    /\ calls = <<>>
    /\ reduce_limit = DefaultReduceLimit
    /\ actions = <<>>
    /\ command = NoCommand
    /\ statements = <<>>

\* pub fn exec(&mut self, command: Command<T>): let mut actions = ...;
\* match command
Call(op_, command_) ==
    /\ pc = "repl"
    /\ op' = op_
    /\ command' = command_
    /\ actions' = <<>>

\* Command::Reduce(term) =>
ReplReduce ==
    /\ \E term \in ReplTerms :
           /\ Call("reduce", Reduce(term))
           /\ classic' = term
    /\ pc' = "from"
    /\ UNCHANGED <<local_nameless, limit, count, predicate_calls, step_calls,
                   true_steps, last_changed, before_step, result, full, binds,
                   calls, reduce_limit, statements>>

\* (mutant of ReplRebind: the table is not consulted)
ReplRebind_skipped ==
    /\ pc = "rebind"
    /\ limit' = reduce_limit
    /\ pc' = "predicate"
    /\ UNCHANGED <<classic, local_nameless, count, op, predicate_calls,
                   step_calls, true_steps, last_changed, before_step, result,
                   full, binds, calls, repl_vars>>

\* (mutant of ReplRebind: the table lent to rebind comes back empty)
ReplRebind_draining ==
    /\ pc = "rebind"
    /\ local_nameless' = rebind(local_nameless, binds)
    /\ binds' = <<>>
    /\ limit' = reduce_limit
    /\ pc' = "predicate"
    /\ UNCHANGED <<classic, count, op, predicate_calls, step_calls,
                   true_steps, last_changed, before_step, result, full,
                   calls, repl_vars>>

\* local_nameless.rebind(&mut self.binds); then beta_reduce_limit is entered
\* with self.reduce_limit as its limit
ReplRebind ==
    /\ pc = "rebind"
    /\ local_nameless' = rebind(local_nameless, binds)
    /\ limit' = reduce_limit
    /\ pc' = "predicate"
    /\ UNCHANGED <<classic, count, op, predicate_calls, step_calls,
                   true_steps, last_changed, before_step, result, full, binds,
                   calls, repl_vars>>

\* (mutant of limit_reached: count > self.reduce_limit)
limit_exceeded(count_, reduce_limit_) == count_ > reduce_limit_

\* if count >= self.reduce_limit
limit_reached(count_, reduce_limit_) == count_ >= reduce_limit_

\* actions.push(TermReduced(ReducedTerm { count, term })); if the limit was
\* reached actions.push(ReduceLimitReached(count)); exec returns
ReplPush ==
    /\ pc = "push"
    /\ actions' = <<TermReduced(ReducedTerm(count, result[2]))>>
                   \o (IF limit_reached(count, reduce_limit)
                       THEN <<ReduceLimitReached(count)>> ELSE <<>>)
    /\ pc' = "returned"
    /\ UNCHANGED <<classic, local_nameless, limit, count, op, predicate_calls,
                   step_calls, true_steps, last_changed, before_step, result,
                   full, binds, calls, reduce_limit, command, statements>>

\* Command::Exec(statements) => actions.extend(statements.into_iter().map(..
ReplExec ==
    /\ \E list \in StatementLists(MaxStatements) :
           /\ Call("exec", Exec(list))
           /\ statements' = list
    /\ pc' = "exec"
    /\ UNCHANGED <<classic, local_nameless, limit, count, predicate_calls,
                   step_calls, true_steps, last_changed, before_step, result,
                   full, binds, calls, reduce_limit>>

\* the closure of map on the next statement: Statement::Bind(name, term) =>
\* from, rebind, insert, and the outcome extend appends
ReplBind ==
    /\ pc = "exec"
    /\ statements # <<>>
    /\ LET name == Head(statements)[2]
           term == Head(statements)[3]
           stored == rebind(from(term), binds)
       IN  /\ binds' = insert(binds, name, stored)
           /\ actions' = Append(actions, IF name \in DOMAIN binds
                                         THEN BindOverwritten(name)
                                         ELSE BindAdded(name))
    /\ statements' = Tail(statements)
    /\ UNCHANGED <<classic, local_nameless, limit, count, pc, op,
                   predicate_calls, step_calls, true_steps, last_changed,
                   before_step, result, full, calls, reduce_limit, command>>

\* the iterator is exhausted: extend is done and exec returns actions
ReplExecEnd ==
    /\ pc = "exec"
    /\ statements = <<>>
    /\ pc' = "returned"
    /\ UNCHANGED <<classic, local_nameless, limit, count, op, predicate_calls,
                   step_calls, true_steps, last_changed, before_step, result,
                   full, binds, calls, repl_vars>>

\* Command::GetReduceLimit => actions.push(ReduceLimitGot(self.reduce_limit))
ReplGetReduceLimit ==
    /\ pc = "repl"
    /\ op' = "get_reduce_limit"
    /\ command' = GetReduceLimit
    /\ actions' = <<ReduceLimitGot(reduce_limit)>>
    /\ pc' = "returned"
    /\ UNCHANGED <<classic, local_nameless, limit, count, predicate_calls,
                   step_calls, true_steps, last_changed, before_step, result,
                   full, binds, calls, reduce_limit, statements>>

\* (mutant of ReplSetReduceLimit: the limit is reported set but not stored)
ReplSetReduceLimit_dropped ==
    /\ pc = "repl"
    /\ \E limit_ \in 0..MaxLimit :
           /\ command' = SetReduceLimit(limit_)
           /\ actions' = <<ReduceLimitSet(limit_)>>
    /\ op' = "set_reduce_limit"
    /\ pc' = "returned"
    /\ UNCHANGED <<classic, local_nameless, limit, count, predicate_calls,
                   step_calls, true_steps, last_changed, before_step, result,
                   full, binds, calls, reduce_limit, statements>>

\* Command::SetReduceLimit(limit) => self.reduce_limit = limit; push
ReplSetReduceLimit ==
    /\ pc = "repl"
    /\ \E limit_ \in 0..MaxLimit :
           /\ command' = SetReduceLimit(limit_)
           /\ reduce_limit' = limit_
           /\ actions' = <<ReduceLimitSet(limit_)>>
    /\ op' = "set_reduce_limit"
    /\ pc' = "returned"
    /\ UNCHANGED <<classic, local_nameless, limit, count, predicate_calls,
                   step_calls, true_steps, last_changed, before_step, result,
                   full, binds, calls, statements>>

\* Command::Exit => actions.push(CommandOutcome::Exit)
ReplExit ==
    /\ pc = "repl"
    /\ op' = "exit"
    /\ command' = Exit
    /\ actions' = <<Exit>>
    /\ pc' = "returned"
    /\ UNCHANGED <<classic, local_nameless, limit, count, predicate_calls,
                   step_calls, true_steps, last_changed, before_step, result,
                   full, binds, calls, reduce_limit, statements>>

\* the caller has the outcomes and holds the Repl again
Drop ==
    /\ pc' = "repl"
    /\ op' = "none"
    /\ command' = NoCommand
    /\ actions' = <<>>
    /\ statements' = <<>>
    /\ classic' = Unset
    /\ local_nameless' = Unset
    /\ limit' = 0
    /\ count' = 0
    /\ predicate_calls' = 0
    /\ step_calls' = 0
    /\ true_steps' = 0
    /\ last_changed' = FALSE
    /\ before_step' = Unset
    /\ result' = None
    /\ calls' = <<>>
    /\ UNCHANGED <<full, binds, reduce_limit>>

ReplReturn == pc = "returned" /\ Drop

\* a reduction under a limit above MaxSteps that is still running after
\* MaxSteps steps is not followed any further
ReplAbandon ==
    /\ pc = "step"
    /\ op = "reduce"
    /\ count = MaxSteps
    /\ Drop

NextRepl ==
    \/ ReplReduce
    \/ FromClassic
    \/ ReplRebind
    \/ Predicate
    \/ Step
    \/ TryFrom
    \/ ReplPush
    \/ ReplExec
    \/ ReplBind
    \/ ReplExecEnd
    \/ ReplGetReduceLimit
    \/ ReplSetReduceLimit
    \/ ReplExit
    \/ ReplReturn
    \/ ReplAbandon

SpecRepl == InitRepl /\ [][NextRepl]_vars

---------------------------------------------------------------------------
(* One call of beta_reduced_limit followed to its return.  The call is     *)
(* synchronous code on one thread: whichever of its steps is next is       *)
(* eventually taken.                                                       *)

FairTerms == UNION {TermsOfSize(n) : n \in 1..MaxFairSize} \cup ScenarioTerms

InitFair ==
    /\ classic \in FairTerms
    /\ local_nameless = Unset
    /\ limit \in 0..MaxLimit
    /\ count = 0
    /\ pc = "from"
    /\ op = "beta_reduced_limit"
    /\ predicate_calls = 0
    /\ step_calls = 0
    /\ true_steps = 0
    /\ last_changed = FALSE
    /\ before_step = Unset
    /\ result = None
    /\ full = NoFull
    /\ binds = <<>>
    /\ calls = <<>>
    /\ NoRepl

NextFair == FromClassic \/ Predicate \/ Step \/ TryFrom

FairSpec == InitFair /\ [][NextFair]_vars /\ WF_vars(NextFair)

---------------------------------------------------------------------------
(* Vocabulary of the properties *)

Min(a, b) == IF a < b THEN a ELSE b

\* a beta-redex: an App whose func is an Abs, anywhere in the term
RECURSIVE HasRedex(_)
HasRedex(t) ==
    CASE t[1] = "Var" -> FALSE
      [] t[1] = "Abs" -> HasRedex(t[3])
      [] t[1] = "App" -> t[2][1] = "Abs" \/ HasRedex(t[2]) \/ HasRedex(t[3])

\* the malformed nodes of a locally-nameless term below d abstractions, in
\* traversal order (parameter before body, func before arg)
RECURSIVE Faults(_, _)
Faults(t, d) ==
    CASE t[1] = "Var" ->
            IF t[2][1] = "Bound" /\ t[2][2] >= d
            THEN <<InvalidVarIndex(t[2][2])>> ELSE <<>>
      [] t[1] = "Abs" ->
            (IF t[2][1] = "Bound" THEN <<InvalidAbsParam(t[2][2])>> ELSE <<>>)
            \o Faults(t[3], d + 1)
      [] t[1] = "App" -> Faults(t[2], d) \o Faults(t[3], d)

WellFormed(t) == Faults(t, 0) = <<>>

\* a locally-nameless term without its display labels: classic terms are
\* alpha-equivalent exactly when their nameless forms agree up to the labels
RECURSIVE Erase(_)
Erase(t) ==
    CASE t[1] = "Var" -> t
      [] t[1] = "Abs" -> abs(Free("_"), Erase(t[3]))
      [] t[1] = "App" -> app(Erase(t[2]), Erase(t[3]))

Reducing == op \in {"beta_reduced", "beta_reduced_limit"}

---------------------------------------------------------------------------
\* C1: converting any classic term to locally-nameless form and back, with
\* no reduction step in between, returns Ok of a term equal to the input.
C1_RoundTrip ==
    (pc = "done" /\ op = "round_trip")
        => (result = Ok(classic) /\ step_calls = 0)

C1_Witness ==
    /\ pc = "done"
    /\ op = "round_trip"
    /\ classic = abs("x", abs("x", var("x")))
    /\ local_nameless = abs(Free("x"), abs(Free("x"), var(Bound(0))))
    /\ result = Ok(classic)

\* C2: beta_reduced returns a classic term that is alpha-equivalent to the
\* capture-avoiding normal form (the nameless term the reduction ended with):
\* reading the returned term binds no occurrence that the normal form leaves
\* free or binds elsewhere.
C2_CaptureAvoiding ==
    (pc = "done" /\ op = "beta_reduced")
        => /\ result[1] = "Ok"
           /\ ~HasRedex(local_nameless)
           /\ Erase(from(result[2])) = Erase(local_nameless)

\* C3: beta_reduce_limit(n) returns min(n, N), N being the number of
\* change-reporting steps of reduce-to-normal-form: the count never exceeds
\* n, it is n exactly when n change-reporting steps were performed, and for
\* omega it is n, the term is still omega and converts back without error.
C3_LimitCount ==
    (pc = "done" /\ op = "beta_reduced_limit")
        => /\ count <= limit
           /\ full.status = "finished" => count = Min(limit, full.count)
           /\ full.status = "abandoned" => count = limit
           /\ (count = limit) <=> (true_steps = limit)
           /\ classic = omega => /\ count = limit
                                 /\ local_nameless = from(omega)
                                 /\ result = Ok(omega)

C3_Witness ==
    /\ pc = "done"
    /\ op = "beta_reduced_limit"
    /\ classic = omega
    /\ full.status = "abandoned"
    /\ limit = 3
    /\ count = 3
    /\ result = Ok(omega)

\* C4: when reduce-to-normal-form takes N steps, beta_reduced_limit(n) with
\* any n >= N returns the term and the count of beta_reduced, so any two
\* limits n' > n >= N return the same.
C4_MonotonicBounding ==
    (/\ pc = "done"
     /\ op = "beta_reduced_limit"
     /\ full.status = "finished"
     /\ limit >= full.count)
        => (result = Ok(full.term) /\ count = full.count)

C4_Witness ==
    /\ pc = "done"
    /\ op = "beta_reduced_limit"
    /\ full.status = "finished"
    /\ full.count = 2
    /\ limit = 3
    /\ count = 2
    /\ result = Ok(full.term)

\* C5: beta_reduce_limit(n) always returns, after at most n change-reporting
\* steps (at most n step calls in all) and at most n + 1 evaluations of the
\* predicate, divergent terms included.
C5_BoundedTerminates ==
    /\ [](op = "beta_reduced_limit"
            => /\ true_steps <= limit
               /\ step_calls <= limit
               /\ predicate_calls <= limit + 1)
    /\ (op = "beta_reduced_limit" /\ pc = "from") ~> (pc = "done")

C5_Witness ==
    /\ pc = "done"
    /\ op = "beta_reduced_limit"
    /\ classic = omega
    /\ limit = 3
    /\ true_steps = 3
    /\ predicate_calls = 4

\* C6: a step that reports no change leaves the term as it was, and a term
\* without a redex is returned as it was, with count 0, by beta_reduced and
\* by beta_reduced_limit with any limit.
C6_NoChangeIsIdentity ==
    /\ (step_calls > 0 /\ ~last_changed) => local_nameless = before_step
    /\ (pc = "done" /\ Reducing /\ ~HasRedex(from(classic)))
            => (count = 0 /\ true_steps = 0 /\ result = Ok(classic))

C6_Witness ==
    /\ pc = "done"
    /\ op = "beta_reduced"
    /\ classic = compose
    /\ step_calls = 1
    /\ ~last_changed
    /\ count = 0
    /\ result = Ok(classic)

\* C7 as stated: a step that reports change leaves a term different from the
\* one it was given.
C7_ChangedDiffers ==
    (step_calls > 0 /\ last_changed) => local_nameless # before_step

\* C7 amended: a step that reports change was given a term with a redex, and
\* the term it leaves is different whenever that term has no redex left (a
\* term that reduces to itself, like omega, is reported changed and is equal).
C7_ChangedHadRedex ==
    (step_calls > 0 /\ last_changed)
        => /\ HasRedex(before_step)
           /\ ~HasRedex(local_nameless) => local_nameless # before_step

C7_Witness ==
    /\ step_calls = 1
    /\ last_changed
    /\ classic = app(id, var("y"))
    /\ before_step = app(abs(Free("x"), var(Bound(0))), var(Free("y")))
    /\ local_nameless = var(Free("y"))

\* C10: beta_reduce calls beta_reduce_step until the first call that reports
\* no change and returns the number of calls that reported change; the term
\* it leaves has no redex; a step reports no change exactly when the term it
\* is given has no redex.
C10_NormalForm ==
    /\ (op = "beta_reduced" /\ pc \in {"try_from", "done"})
            => /\ count = true_steps
               /\ step_calls = true_steps + 1
               /\ ~last_changed
               /\ ~HasRedex(local_nameless)
    /\ (op = "beta_reduced" /\ pc = "step" /\ step_calls > 0) => last_changed
    /\ step_calls > 0 => (last_changed <=> HasRedex(before_step))

C10_Witness ==
    /\ pc = "done"
    /\ op = "beta_reduced"
    /\ classic = app(abs("n", app(var("n"), var("n"))), id)
    /\ count = 2
    /\ step_calls = 3
    /\ result = Ok(id)

\* C8: Term::try_from reports a malformed term as a value and never panics:
\* it is Ok exactly when no Bound(k) has fewer than k + 1 abstractions around
\* it and no Abs parameter is Bound, and otherwise the Err of the first
\* malformed node in traversal order (parameter before body, func before
\* arg).
C8_ConversionResult ==
    /\ op = "manual" => pc # "panic"
    /\ (pc = "done" /\ op = "manual")
            => LET faults == Faults(local_nameless, 0)
               IN  /\ (result[1] = "Ok") <=> (faults = <<>>)
                   /\ result[1] \in {"Ok", "Err"}
                   /\ faults # <<>> => result = Err(Head(faults))

C8_Witness ==
    /\ pc = "done"
    /\ op = "manual"
    /\ local_nameless = app(var(Bound(0)), abs(Bound(1), var(Free("x"))))
    /\ result = Err(InvalidVarIndex(0))

\* C9: every term reached from a converted classic term by steps and by
\* rewriting against a table of terms reached the same way is well-formed
\* (each Bound(k) below at least k + 1 abstractions, each Abs parameter
\* Free), so Term::try_from returns Ok and the unwrap never panics.
C9_WellFormedInvariant ==
    /\ pc # "panic"
    /\ local_nameless # Unset
            => /\ WellFormed(local_nameless)
               /\ try_from(local_nameless)[1] = "Ok"
    /\ \A name \in DOMAIN binds : WellFormed(binds[name])

C9_Witness ==
    /\ pc = "engine"
    /\ op = "step"
    /\ last_changed
    /\ "x" \in DOMAIN binds
    /\ binds["x"] = abs(Free("x"), var(Bound(0)))
    /\ local_nameless = abs(Free("y"), var(Bound(0)))

\* the number of change-reporting steps among the first n calls
ChangedSteps(n) ==
    Cardinality({j \in 1..n : calls[j].call = "step" /\ calls[j].returned})

\* C11: beta_reduce_while calls the predicate and the step in turn: the
\* predicate first, with the current term and k = the number of
\* change-reporting steps so far; a step only after the predicate returned
\* true for that k; nothing after the first false predicate or the first
\* step reporting no change; the count returned is the number of
\* change-reporting steps.  With a predicate false at k = 0 (limit 0) no
\* step is made and the term comes back unchanged with count 0.
C11_WhileProtocol ==
    (op \in {"beta_reduced_limit", "beta_reduced_while"}
     /\ local_nameless # Unset)
        => /\ \A i \in 1..Len(calls) :
                  /\ i % 2 = 1 =>
                         /\ calls[i].call = "predicate"
                         /\ calls[i].count = ChangedSteps(i - 1)
                         /\ calls[i].term = IF i = 1 THEN from(classic)
                                                     ELSE calls[i - 1].after
                  /\ i % 2 = 0 =>
                         /\ calls[i].call = "step"
                         /\ calls[i - 1].returned
                         /\ calls[i].term = calls[i - 1].term
                  /\ i < Len(calls) => calls[i].returned
           /\ pc = "predicate" => (calls = <<>> \/ calls[Len(calls)].call = "step")
           /\ pc = "step" => calls[Len(calls)].call = "predicate"
           /\ pc \in {"try_from", "done"} =>
                  /\ calls # <<>>
                  /\ ~calls[Len(calls)].returned
                  /\ local_nameless = calls[Len(calls)].after
                  /\ count = ChangedSteps(Len(calls))
           /\ (pc = "done" /\ ~calls[1].returned) =>
                  /\ Len(calls) = 1
                  /\ step_calls = 0
                  /\ count = 0
                  /\ result = Ok(classic)

\* a caller's predicate that allowed two steps of a longer reduction and
\* then returned false: the third step is never attempted
C11_Witness ==
    /\ pc = "done"
    /\ op = "beta_reduced_while"
    /\ classic = omega
    /\ Len(calls) = 5
    /\ count = 2
    /\ calls[5].call = "predicate"
    /\ calls[5].count = 2
    /\ ~calls[5].returned
    /\ HasRedex(local_nameless)

\* the terms obtained from t by contracting exactly one beta-redex, the
\* redex App(Abs(_, body), arg) becoming body opened with arg at depth 0
RECURSIVE Reducts(_)
Reducts(t) ==
    CASE t[1] = "Var" -> {}
      [] t[1] = "Abs" -> {abs(t[2], b) : b \in Reducts(t[3])}
      [] t[1] = "App" ->
            (IF t[2][1] = "Abs" THEN {open(t[2][3], 0, t[3])} ELSE {})
            \cup {app(f, t[3]) : f \in Reducts(t[2])}
            \cup {app(t[2], a) : a \in Reducts(t[3])}

\* the number of beta-redexes of t
RECURSIVE CountRedex(_)
CountRedex(t) ==
    CASE t[1] = "Var" -> 0
      [] t[1] = "Abs" -> CountRedex(t[3])
      [] t[1] = "App" -> (IF t[2][1] = "Abs" THEN 1 ELSE 0)
                         + CountRedex(t[2]) + CountRedex(t[3])

\* t with its leftmost-outermost redex contracted, and nothing else
RECURSIVE LeftmostOutermost(_)
LeftmostOutermost(t) ==
    CASE t[1] = "Var" -> t
      [] t[1] = "Abs" -> abs(t[2], LeftmostOutermost(t[3]))
      [] t[1] = "App" ->
            IF t[2][1] = "Abs" THEN open(t[2][3], 0, t[3])
            ELSE IF HasRedex(t[2]) THEN app(LeftmostOutermost(t[2]), t[3])
            ELSE app(t[2], LeftmostOutermost(t[3]))

\* the terms reached from those of S by at most n further contractions
RECURSIVE ReachWithin(_, _)
ReachWithin(S, n) ==
    IF n <= 0 THEN S
    ELSE ReachWithin(S \cup UNION {Reducts(t) : t \in S}, n - 1)

\* C12: a single step rewrites one redex: whenever beta_reduce_step reports
\* change, the term it leaves is obtained from the term it was given by
\* contracting exactly one beta-redex.
C12_OneRedexPerStep ==
    (last_changed /\ before_step # Unset)
        => local_nameless \in Reducts(before_step)

\* C13: whenever beta_reduce_step reports change, the leftmost-outermost
\* redex of the term it was given is among the redexes that call contracted:
\* the term it leaves is the term with that redex contracted, or is reached
\* from it by contracting redexes that were already there.
C13_LeftmostOutermostFirst ==
    (last_changed /\ before_step # Unset)
        => local_nameless \in ReachWithin({LeftmostOutermost(before_step)},
                                          CountRedex(before_step) - 1)

\* (\x. (\y. y) x) y: the call steps the body and contracts the outer redex
C13_Witness ==
    /\ last_changed
    /\ before_step = app(abs(Free("x"),
                             app(abs(Free("y"), var(Bound(0))), var(Bound(0)))),
                         var(Free("y")))
    /\ local_nameless = var(Free("y"))
    /\ LeftmostOutermost(before_step)
           = app(abs(Free("y"), var(Bound(0))), var(Free("y")))

\* the rendering of a classic term: operand s in parentheses
Parenthesised(s) == <<"(">> \o s \o <<")">>

RECURSIVE Rendering(_)
Rendering(t) ==
    CASE t[1] = "Var" -> <<t[2]>>
      [] t[1] = "Abs" -> <<"\\lambda", t[2], ". ">> \o Rendering(t[3])
      [] t[1] = "App" ->
            (IF t[2][1] = "Abs" THEN Parenthesised(Rendering(t[2]))
                                ELSE Rendering(t[2]))
            \o <<" ">>
            \o (IF t[3][1] \in {"Abs", "App"}
                THEN Parenthesised(Rendering(t[3]))
                ELSE Rendering(t[3]))

\* the number of operands that are to be parenthesised
RECURSIVE Operands(_)
Operands(t) ==
    CASE t[1] = "Var" -> 0
      [] t[1] = "Abs" -> Operands(t[3])
      [] t[1] = "App" -> (IF t[2][1] = "Abs" THEN 1 ELSE 0)
                         + (IF t[3][1] \in {"Abs", "App"} THEN 1 ELSE 0)
                         + Operands(t[2]) + Operands(t[3])

Occurrences(s, piece) == Cardinality({i \in 1..Len(s) : s[i] = piece})

\* C14: Display writes a Var as its identifier, Abs(p, b) as the lambda
\* sign, p, ". " and b, App(f, a) as f, one space, a, with f in parentheses
\* exactly when f is an Abs and a exactly when a is an Abs or an App, and no
\* other parentheses: compose is \f. \g. \x. f (g x), flip is
\* \f. \x. \y. f y x and omega is (\x. x x) (\x. x x).
C14_CanonicalDisplay ==
    (pc = "done" /\ op = "display")
        => /\ result = String(Rendering(classic))
           /\ Occurrences(result[2], "(") = Operands(classic)
           /\ Occurrences(result[2], ")") = Operands(classic)
           /\ classic = compose =>
                  result[2] = <<"\\lambda", "f", ". ", "\\lambda", "g", ". ",
                                "\\lambda", "x", ". ",
                                "f", " ", "(", "g", " ", "x", ")">>
           /\ classic = flip =>
                  result[2] = <<"\\lambda", "f", ". ", "\\lambda", "x", ". ",
                                "\\lambda", "y", ". ", "f", " ", "y", " ", "x">>
           /\ classic = omega =>
                  result[2] = <<"(", "\\lambda", "x", ". ", "x", " ", "x", ")",
                                " ",
                                "(", "\\lambda", "x", ". ", "x", " ", "x", ")">>

\* flip displayed: the func f y of the body is an App and is not parenthesised
C14_Witness ==
    /\ pc = "done"
    /\ op = "display"
    /\ classic = flip
    /\ result = String(<<"\\lambda", "f", ". ", "\\lambda", "x", ". ",
                         "\\lambda", "y", ". ", "f", " ", "y", " ", "x">>)

\* term after is term self with each Free(name), name a key of table,
\* replaced by table[name] as it is, and nothing else touched
RECURSIVE Rebound(_, _, _)
Rebound(self, after, table) ==
    CASE self[1] = "Var" ->
            IF self[2][1] = "Free" /\ self[2][2] \in DOMAIN table
            THEN after = table[self[2][2]]
            ELSE after = self
      [] self[1] = "Abs" -> /\ after[1] = "Abs"
                            /\ after[2] = self[2]
                            /\ Rebound(self[3], after[3], table)
      [] self[1] = "App" -> /\ after[1] = "App"
                            /\ Rebound(self[2], after[2], table)
                            /\ Rebound(self[3], after[3], table)

\* C15: rebind replaces every Free(name) whose name is a key of the table,
\* at any depth, by the table's term for that name exactly as stored; Bound
\* occurrences, Abs labels and other Free names stay; the spliced term is
\* not walked again; the table is left as it was.
C15_RebindSplices ==
    [][op' = "rebind" => /\ Rebound(local_nameless, local_nameless', binds)
                         /\ binds' = binds]_vars

\* \y. x rewritten with x bound to \x. y and y bound too: the y of the
\* spliced term stays free
C15_Witness ==
    /\ op = "rebind"
    /\ DOMAIN binds = {"x", "y"}
    /\ binds["x"] = abs(Free("x"), var(Free("y")))
    /\ binds["y"] = abs(Free("x"), var(Bound(0)))
    /\ local_nameless = abs(Free("y"), abs(Free("x"), var(Free("y"))))

\* C16: Repl::exec returns at least one CommandOutcome for every Command,
\* Command::Exec with any list of statements included.
C16_AtLeastOneOutcome ==
    pc = "returned" => Len(actions) >= 1

\* C17: on Command::Reduce(term) the term is rewritten against the table
\* before the first beta-step, then reduced with Normal under the limit the
\* Repl has at that moment, and TermReduced carries the step count and the
\* classic result; with identity and double bound, Reduce(double identity)
\* is reduced from (\n. n n) (\x. x) and returns \x. x with a count below
\* the limit.
C17_ReduceCommand ==
    op = "reduce"
        => /\ pc \in {"from", "rebind"} => (step_calls = 0 /\ calls = <<>>)
           /\ pc \in {"predicate", "step", "try_from", "push", "returned"}
                  => /\ limit = reduce_limit
                     /\ Rebound(from(classic),
                                IF calls = <<>> THEN local_nameless
                                                ELSE calls[1].term, binds)
                     /\ calls # <<>> => calls[1].call = "predicate"
           /\ pc = "returned"
                  => /\ actions[1] = TermReduced(ReducedTerm(count, result[2]))
                     /\ result = try_from(local_nameless)
                     /\ result[1] = "Ok"
                     /\ count = ChangedSteps(Len(calls))
                     /\ count <= reduce_limit
           /\ ( /\ pc = "returned"
                /\ command = Reduce(app(var("double"), var("identity")))
                /\ {"double", "identity"} \subseteq DOMAIN binds
                /\ reduce_limit = DefaultReduceLimit )
                  => /\ calls[1].term = app(from(double), from(id))
                     /\ actions = <<TermReduced(ReducedTerm(count, id))>>
                     /\ count < reduce_limit

C17_Witness ==
    /\ pc = "returned"
    /\ command = Reduce(app(var("double"), var("identity")))
    /\ {"double", "identity"} \subseteq DOMAIN binds
    /\ binds["identity"] = from(id)
    /\ binds["double"] = from(double)
    /\ reduce_limit = DefaultReduceLimit
    /\ calls[1].term = app(from(double), from(id))
    /\ actions = <<TermReduced(ReducedTerm(2, id))>>

\* the statements of the running Exec that are done, in order
Done == SubSeq(command[2], 1, Len(command[2]) - Len(statements))

\* C18: Exec processes its statements in order with exactly one outcome per
\* statement in that order; Bind(name, term) stores under name the term
\* rewritten against the table as it is just before the insertion (earlier
\* statements of the same command included), leaving every other entry; the
\* outcome is BindAdded(name) if name had no entry just before and
\* BindOverwritten(name) if it had one, which is replaced.
C18_BindStatements ==
    /\ [](op = "exec" =>
            /\ Done \o statements = command[2]
            /\ Len(actions) = Len(Done)
            /\ \A i \in 1..Len(actions) :
                   /\ actions[i][1] \in {"BindAdded", "BindOverwritten"}
                   /\ actions[i][2] = Done[i][2]
            /\ pc = "returned" => statements = <<>>)
    /\ [][(pc = "exec" /\ statements # <<>>) =>
            LET name == Head(statements)[2]
                term == Head(statements)[3]
            IN  /\ statements' = Tail(statements)
                /\ DOMAIN binds' = DOMAIN binds \cup {name}
                /\ Rebound(from(term), binds'[name], binds)
                /\ \A other \in DOMAIN binds \ {name} :
                       binds'[other] = binds[other]
                /\ actions' = Append(actions,
                                     IF name \in DOMAIN binds
                                     THEN BindOverwritten(name)
                                     ELSE BindAdded(name))]_vars

\* b = identity; b = \x. identity; in one command with identity bound
\* before: the second statement overwrites what the first one stored
C18_Witness ==
    /\ pc = "returned"
    /\ command = Exec(<<Bind("b", var("identity")),
                        Bind("b", abs("x", var("identity")))>>)
    /\ actions = <<BindAdded("b"), BindOverwritten("b")>>
    /\ "identity" \in DOMAIN binds
    /\ binds["b"] = abs(Free("x"), from(id))

\* C19: for Reduce, ReduceLimitReached(count) is emitted, after TermReduced,
\* exactly when the count equals the limit, a limit of 0 and a normal form
\* reached in exactly limit steps included; when the count is below the
\* limit TermReduced is the only outcome.
C19_LimitWarning ==
    (pc = "returned" /\ op = "reduce")
        => /\ count <= reduce_limit
           /\ actions[1] = TermReduced(ReducedTerm(count, result[2]))
           /\ count = reduce_limit
                  => actions = <<actions[1], ReduceLimitReached(count)>>
           /\ count < reduce_limit => actions = <<actions[1]>>

\* double identity reaches its normal form in exactly 2 steps under limit 2
C19_Witness ==
    /\ pc = "returned"
    /\ command = Reduce(app(var("double"), var("identity")))
    /\ reduce_limit = 2
    /\ ~HasRedex(local_nameless)
    /\ actions = <<TermReduced(ReducedTerm(2, id)), ReduceLimitReached(2)>>

\* C20: a stored definition is rewritten only against the table as it was
\* when it was bound.  Binding a name changes no other entry, whatever the
\* entries mention; a bound to b while b is unbound stays Free(b), and
\* Reduce(a) returns b free although b was bound afterwards; a bound to b
\* after b holds b's definition of that moment, and Reduce(a) starts from it.
C20_ResolutionAtBindingTime ==
    /\ [][\A name \in DOMAIN binds :
               /\ name \in DOMAIN binds'
               /\ binds'[name] # binds[name]
                      => /\ pc = "exec"
                         /\ statements # <<>>
                         /\ Head(statements)[2] = name]_vars
    /\ [][(pc = "exec" /\ statements # <<>>
            /\ Head(statements) = Bind("a", var("b")))
               => binds'["a"] = IF "b" \in DOMAIN binds THEN binds["b"]
                                                        ELSE var(Free("b"))]_vars
    /\ []((pc = "returned" /\ command = Reduce(var("a"))
            /\ "a" \in DOMAIN binds)
               => /\ calls[1].term = binds["a"]
                  /\ binds["a"] = var(Free("b"))
                         => actions[1] = TermReduced(ReducedTerm(0, var("b"))))

\* a = b; b = identity; Reduce(a): b is bound by now, and a still is b
C20_Witness ==
    /\ pc = "returned"
    /\ command = Reduce(var("a"))
    /\ {"a", "b", "identity"} \subseteq DOMAIN binds
    /\ binds["a"] = var(Free("b"))
    /\ binds["b"] = from(id)
    /\ actions = <<TermReduced(ReducedTerm(0, var("b")))>>

\* C21: a new Repl has no bindings and limit 1000; the limit is the argument
\* of the most recent SetReduceLimit (it changes with that command only, to
\* its argument, and ReduceLimitSet of that argument is the outcome);
\* GetReduceLimit reports it as ReduceLimitGot, and every Reduce runs under
\* it.
C21_LimitRegister ==
    /\ binds = <<>>
    /\ reduce_limit = DefaultReduceLimit
    /\ [][IF command' # command /\ command'[1] = "SetReduceLimit"
          THEN /\ reduce_limit' = command'[2]
               /\ actions' = <<ReduceLimitSet(command'[2])>>
               /\ pc' = "returned"
          ELSE reduce_limit' = reduce_limit]_vars
    /\ []((pc = "returned" /\ command = GetReduceLimit)
               => actions = <<ReduceLimitGot(reduce_limit)>>)
    /\ []((op = "reduce" /\ pc \in {"predicate", "step", "try_from", "push",
                                     "returned"})
               => (limit = reduce_limit /\ count <= reduce_limit))

\* the limit was set to 2 and is reported
C21_Witness ==
    /\ pc = "returned"
    /\ command = GetReduceLimit
    /\ reduce_limit = 2
    /\ actions = <<ReduceLimitGot(2)>>

\* the step just made was given App(Abs(_, body), arg)
RootRedex ==
    /\ before_step # Unset
    /\ before_step[1] = "App"
    /\ before_step[2][1] = "Abs"

\* C22 as stated: when the step is given App(Abs(_, body), arg), the body
\* is in normal form when it is opened with arg: the term left is a normal
\* form of body, reached by contracting redexes of body, opened with arg.
C22_BodyNormalised ==
    RootRedex
        => \E normal \in ReachWithin({before_step[2][3]},
                                      CountRedex(before_step[2][3])) :
               /\ ~HasRedex(normal)
               /\ local_nameless = open(normal, 0, before_step[3])

\* C22 amended: the body is given one step of the strategy before it is
\* opened: a body without redex is opened as it is, a body with redexes is
\* opened with its leftmost-outermost redex contracted, and possibly others
\* of its redexes, but not necessarily in normal form.
C22_BodySteppedOnce ==
    RootRedex
        => LET body == before_step[2][3]
           IN  IF HasRedex(body)
               THEN \E stepped \in ReachWithin({LeftmostOutermost(body)},
                                                CountRedex(body) - 1) :
                        local_nameless = open(stepped, 0, before_step[3])
               ELSE local_nameless = open(body, 0, before_step[3])

\* (\x. (\x. x x) (\x. x)) y: the body is opened as (\x. x) (\x. x)
C22_Witness ==
    /\ RootRedex
    /\ before_step = from(app(abs("x", app(app_self, id)), var("y")))
    /\ local_nameless = from(app(id, id))
    /\ HasRedex(local_nameless)

\* (each call is the last of the log in the state that follows it)
\* C23: a step given App(Abs(p, body), arg) returns true and leaves the
\* body, as the strategy's step on it left it, opened at depth 0 with arg as
\* it was given; the application and the binder are gone, and the call
\* counts for one step whether the body was rewritten or not.  One step of
\* (\x. x) y gives y with count 1.
C23_RootContraction ==
    /\ \A i \in {Len(calls)} \ {0} :
           ( /\ calls[i].call = "step"
             /\ calls[i].term[1] = "App"
             /\ calls[i].term[2][1] = "Abs" )
               => LET body == calls[i].term[2][3]
                      arg == calls[i].term[3]
                  IN  /\ calls[i].returned
                      /\ calls[i].after = open(beta_reduce_step(body).term,
                                               0, arg)
                      /\ ChangedSteps(i) = ChangedSteps(i - 1) + 1
    /\ count = ChangedSteps(Len(calls))
    /\ ( /\ pc = "done"
         /\ op = "beta_reduced_limit"
         /\ limit = 1
         /\ classic = app(id, var("y")) )
           => (result = Ok(var("y")) /\ count = 1)

\* (\x. y) ((\x. x) y): the body has no redex, the arg is dropped unreduced
C23_Witness ==
    /\ pc = "done"
    /\ op = "beta_reduced"
    /\ classic = app(abs("x", var("y")), app(id, var("y")))
    /\ calls[1].call = "step"
    /\ calls[1].returned
    /\ calls[1].after = var(Free("y"))
    /\ count = 1

\* C24: a step given App(func, arg), func not an Abs, makes one step on func
\* and one on arg in the same call, arg also when func changed, and returns
\* true exactly when one of them did; given Abs(p, body) it returns what
\* the step on body returns and keeps p; given a Var it returns false.
C24_OtherArms ==
    \A i \in {Len(calls)} \ {0} :
        calls[i].call = "step" =>
            LET term == calls[i].term
            IN  CASE term[1] = "Var" ->
                        /\ ~calls[i].returned
                        /\ calls[i].after = term
                  [] term[1] = "Abs" ->
                        LET body == beta_reduce_step(term[3])
                        IN  /\ calls[i].returned = body.changed
                            /\ calls[i].after = abs(term[2], body.term)
                  [] term[1] = "App" /\ term[2][1] # "Abs" ->
                        LET func == beta_reduce_step(term[2])
                            arg == beta_reduce_step(term[3])
                        IN  /\ calls[i].returned
                                   = (func.changed \/ arg.changed)
                            /\ calls[i].after = app(func.term, arg.term)
                  [] OTHER -> TRUE

\* (\x. x x) (\x. x) ((\x. x) y): func and arg are both stepped by one call
C24_Witness ==
    /\ calls # <<>>
    /\ calls[1].call = "step"
    /\ calls[1].term = from(app(app(app_self, id), app(id, var("y"))))
    /\ calls[1].returned
    /\ calls[1].after = app(from(app(id, id)), var(Free("y")))

\* term after is term self with every Bound index that is at least
\* enclosing (free in self below enclosing abstractions) raised by amount
RECURSIVE Lifted(_, _, _, _)
Lifted(self, after, enclosing, amount) ==
    CASE self[1] = "Var" ->
            IF self[2][1] = "Bound" /\ self[2][2] >= enclosing
            THEN after = var(Bound(self[2][2] + amount))
            ELSE after = self
      [] self[1] = "Abs" -> /\ after[1] = "Abs"
                            /\ after[2] = self[2]
                            /\ Lifted(self[3], after[3], enclosing + 1, amount)
      [] self[1] = "App" -> /\ after[1] = "App"
                            /\ Lifted(self[2], after[2], enclosing, amount)
                            /\ Lifted(self[3], after[3], enclosing, amount)

\* term after is term self with the index depth substituted by replacement
RECURSIVE Substituted(_, _, _, _)
Substituted(self, after, depth, replacement) ==
    CASE self[1] = "Var" ->
            IF self[2][1] = "Free" THEN after = self
            ELSE IF self[2][2] = depth
                 THEN Lifted(replacement, after, 0, depth)
            ELSE IF self[2][2] > depth
                 THEN after = var(Bound(self[2][2] - 1))
            ELSE after = self
      [] self[1] = "Abs" ->
            /\ after[1] = "Abs"
            /\ after[2] = self[2]
            /\ Substituted(self[3], after[3], depth + 1, replacement)
      [] self[1] = "App" ->
            /\ after[1] = "App"
            /\ Substituted(self[2], after[2], depth, replacement)
            /\ Substituted(self[3], after[3], depth, replacement)

\* C25: open(term, depth, replacement) replaces a Bound index equal to the
\* current depth by replacement with its free indices raised by the current
\* depth and its locally bound ones unchanged, lowers a Bound index above
\* the current depth by one, and leaves lower indices and Free occurrences;
\* the depth grows by one in an Abs body and is shared by both sides of an
\* App.
C25_OpenSubstitutes ==
    (calls # <<>> /\ calls[1].call = "open")
        => Substituted(calls[1].term, calls[1].after, calls[1].depth,
                       calls[1].replacement)

\* (\x. 1) 1 opened at depth 0 with \y. 1: below \x the index 1 is the
\* depth and becomes \y. 2, the free index of the replacement raised by 1;
\* the outer index 1 is above the depth and becomes 0
C25_Witness ==
    /\ calls # <<>>
    /\ calls[1].call = "open"
    /\ calls[1].depth = 0
    /\ calls[1].term = app(abs(Free("x"), var(Bound(1))), var(Bound(1)))
    /\ calls[1].replacement = abs(Free("y"), var(Bound(1)))
    /\ calls[1].after = app(abs(Free("x"), abs(Free("y"), var(Bound(2)))),
                            var(Bound(0)))

\* the abstractions around an occurrence, outermost first, that bind v
Binders(enclosing, v) == {i \in 1..Len(enclosing) : enclosing[i] = v}

\* the innermost of a non-empty set of positions counted from the outside
Innermost(at) == CHOOSE i \in at : \A j \in at : j <= i

\* after is self with every variable resolved against the parameters of the
\* abstractions around it (enclosing, outermost first): the number of
\* abstractions strictly inside the nearest one that binds it, or the name
\* itself when none binds it; every abstraction keeps its parameter as a
\* Free label and the tree keeps its shape
RECURSIVE Named(_, _, _)
Named(self, after, enclosing) ==
    CASE self[1] = "Var" ->
            LET at == Binders(enclosing, self[2])
            IN  IF at = {}
                THEN after = var(Free(self[2]))
                ELSE after = var(Bound(Len(enclosing) - Innermost(at)))
      [] self[1] = "Abs" ->
            /\ after[1] = "Abs"
            /\ after[2] = Free(self[2])
            /\ Named(self[3], after[3], Append(enclosing, self[2]))
      [] self[1] = "App" ->
            /\ after[1] = "App"
            /\ Named(self[2], after[2], enclosing)
            /\ Named(self[3], after[3], enclosing)

\* C26: the forward conversion maps each variable v to Bound(k), k the number
\* of abstractions strictly between the occurrence and the nearest enclosing
\* abstraction whose parameter is v, and to Free(v) when no enclosing
\* abstraction has parameter v; each Abs(p, b) becomes Abs(Free(p), b') and
\* the shape of the tree is kept.
C26_ForwardConversion ==
    (op = "round_trip" /\ pc \in {"try_from", "done"})
        => Named(classic, local_nameless, <<>>)

C26_Witness ==
    /\ op = "round_trip"
    /\ pc = "try_from"
    /\ classic = abs("x", abs("x", app(var("x"), var("y"))))
    /\ local_nameless = abs(Free("x"), abs(Free("x"),
                                           app(var(Bound(0)), var(Free("y")))))

\* the identifiers of the Free variables of a term
RECURSIVE Identifiers(_)
Identifiers(self) ==
    CASE self[1] = "Var" -> IF self[2][1] = "Free" THEN {self[2][2]} ELSE {}
      [] self[1] = "Abs" -> Identifiers(self[3])
      [] self[1] = "App" -> Identifiers(self[2]) \cup Identifiers(self[3])

\* the labels of the abstractions of a term
RECURSIVE Labels(_)
Labels(self) ==
    CASE self[1] = "Var" -> {}
      [] self[1] = "Abs" -> {self[2]} \cup Labels(self[3])
      [] self[1] = "App" -> Labels(self[2]) \cup Labels(self[3])

\* the subterm of self at a path of child positions
RECURSIVE At(_, _)
At(self, path) == IF path = <<>> THEN self ELSE At(self[Head(path)], Tail(path))

\* self with every abstraction labelled by the path that leads to it
RECURSIVE Marked(_, _)
Marked(self, path) ==
    CASE self[1] = "Var" -> self
      [] self[1] = "Abs" -> abs(Free(path), Marked(self[3], Append(path, 3)))
      [] self[1] = "App" -> app(Marked(self[2], Append(path, 2)),
                                Marked(self[3], Append(path, 3)))

\* marked with every abstraction given the label that the abstraction of
\* origin at the path it carries has
RECURSIVE Unmarked(_, _)
Unmarked(marked, origin) ==
    CASE marked[1] = "Var" -> marked
      [] marked[1] = "Abs" -> abs(At(origin, marked[2][2])[2],
                                  Unmarked(marked[3], origin))
      [] marked[1] = "App" -> app(Unmarked(marked[2], origin),
                                  Unmarked(marked[3], origin))

\* C27: after a step of the normal-order strategy every Free identifier of
\* the term was a Free identifier of the term before the call and every Abs
\* label was an Abs label before it, and each abstraction of the result is
\* an abstraction of the term before the call (or a copy of one) with the
\* label it had.
C27_NoRenaming ==
    \A i \in {Len(calls)} \ {0} :
        calls[i].call = "step"
            => /\ Identifiers(calls[i].after) \subseteq Identifiers(calls[i].term)
               /\ Labels(calls[i].after) \subseteq Labels(calls[i].term)
               /\ calls[i].after
                    = Unmarked(beta_reduce_step(Marked(calls[i].term, <<>>)).term,
                               calls[i].term)

\* (\n. n n) (\x. x) steps to (\x. x) (\x. x): the abstraction labelled x
\* is copied with its label and the one labelled n is gone
C27_Witness ==
    /\ calls # <<>>
    /\ calls[1].call = "step"
    /\ calls[1].returned
    /\ calls[1].term = app(abs(Free("n"), app(var(Bound(0)), var(Bound(0)))),
                           abs(Free("x"), var(Bound(0))))
    /\ calls[1].after = app(abs(Free("x"), var(Bound(0))),
                            abs(Free("x"), var(Bound(0))))

\* the names that the statements of a command bind
Names(command_) == {command_[2][i][2] : i \in 1..Len(command_[2])}

\* a step leaves every entry of the table whose name is not in names as it
\* is and adds no entry under another name
Kept(names) ==
    /\ \A name \in DOMAIN binds \ names :
           name \in DOMAIN binds' /\ binds'[name] = binds[name]
    /\ DOMAIN binds' \subseteq DOMAIN binds \cup names

\* C28: Reduce, GetReduceLimit and Exit leave the table and the limit as
\* they are; SetReduceLimit changes the limit and nothing of the table; Exec
\* changes only the entries of the names its statements bind and leaves the
\* limit and every other entry.
C28_Frame ==
    [][ /\ op = "exec" => (Kept(Names(command)) /\ reduce_limit' = reduce_limit)
        /\ op # "exec" => Kept({})
        /\ reduce_limit' # reduce_limit
               => (op = "none" /\ op' = "set_reduce_limit")
        /\ op' \in {"reduce", "get_reduce_limit", "exit", "exec"}
               => reduce_limit' = reduce_limit ]_vars

\* double double reduced under the limit 1 with double and identity bound:
\* the call has returned and the table and the limit are as they were set
C28_Witness ==
    /\ pc = "returned"
    /\ op = "reduce"
    /\ command = Reduce(app(var("double"), var("double")))
    /\ reduce_limit = 1
    /\ DOMAIN binds = {"double", "identity"}
    /\ binds["double"] = from(double)
    /\ binds["identity"] = from(id)
    /\ actions = <<TermReduced(ReducedTerm(1, app(double, double))),
                   ReduceLimitReached(1)>>

\* C29: every term reached from a converted classic term by rebind and step
\* calls converts to a classic term whose conversion is that term again: no
\* occurrence is written under an abstraction whose label would bind it
\* when the classic term is read.
C29_ReverseRoundTrip ==
    (local_nameless # Unset /\ try_from(local_nameless)[1] = "Ok")
        => from(try_from(local_nameless)[2]) = local_nameless

====
